---- MODULE Spec2Model ----
(***************************************************************************)
(* Model of the `#[bool_like]` attribute macro (src/src/lib.rs).           *)
(*                                                                         *)
(* The macro is one function from a parsed item (syn::DeriveInput) to the  *)
(* emitted tokens: the re-emitted item, an `impl Not`, and, when a variant *)
(* carries `#[into_false]`, the two `impl From` conversions.  The emitted  *)
(* impls are modelled as data and evaluated the way the generated Rust     *)
(* code evaluates (match arms in order, if-let / else).                    *)
(*                                                                         *)
(* Variant names of an item are distinct (rustc rejects a duplicate        *)
(* variant name, E0428), so member i is named IdentPool[i].                *)
(***************************************************************************)
EXTENDS Integers, Sequences, FiniteSets, TLC

\* ---------------------------------------------------------------- bounds
MaxVariants == 3
MaxAttrs == 2
MaxDeclAttrs == 1
MaxCalls == 3

\* ------------------------------------------------------------- constants
INTO_FALSE == "into_false"

\* the panic messages, without the backquotes around bool_like
NotEnumMsg == "The bool_like attribute can only be used for enums"

ArityMsg == "The bool_like attribute can only be derived for enums with exactly two variants"

\* ------------------------------------------------------------ input space
IdentPool == <<"Yes", "No", "Maybe", "Never">>

AttrNames == {INTO_FALSE, "doc", "cfg"}

DeclAttrNames == {"derive"}

Kinds == {"Enum", "Struct", "Union"}

Min(a, b) == IF a < b THEN a ELSE b

SeqsUpTo(S, n) == UNION {[1..k -> S] : k \in 0..n}

\* the variants of an enum: k named cases, each with its attribute list.
\* The attribute lists are read only when k = 2 (the arity test comes first),
\* so for the other arities a case carries at most the marker.
VariantAttrs(k) ==
  IF k = 2 THEN SeqsUpTo(AttrNames, MaxAttrs)
           ELSE SeqsUpTo({INTO_FALSE}, Min(MaxAttrs, 1))

VariantSeqs ==
  UNION {{[i \in 1..k |-> [ident |-> IdentPool[i], attrs |-> as[i]]] :
            as \in [1..k -> VariantAttrs(k)]} :
         k \in 0..Min(MaxVariants, Len(IdentPool))}

\* the fields of a struct or union; the macro never reads their attributes
FieldSeqs ==
  {[i \in 1..k |-> [ident |-> IdentPool[i], attrs |-> <<>>]] :
     k \in 0..Min(MaxVariants, Len(IdentPool))}

\* syn::DeriveInput: attrs, ident, data (Enum | Struct | Union)
DeriveInputs ==
  {[ident |-> "Answer", attrs |-> da, data |-> [kind |-> kd, members |-> ms]] :
     da \in SeqsUpTo(DeclAttrNames, MaxDeclAttrs),
     kd \in Kinds,
     ms \in VariantSeqs \cup FieldSeqs}

WellFormed(ast) ==
  IF ast.data.kind = "Enum" THEN ast.data.members \in VariantSeqs
                            ELSE ast.data.members \in FieldSeqs

\* ----------------------------------------------------------------- state
VARIABLES input, pc, gen, panicked, calls

vars == <<input, pc, gen, panicked, calls>>

None == <<>>

Some(x) == <<x>>

NoTokens == [empty |-> TRUE]

\* ------------------------------------------------------------ validation
NotEnumPanic == [msg |-> NotEnumMsg, args |-> <<>>]

ArityPanicWithCount(n) == [msg |-> ArityMsg, args |-> <<n>>]

ArityPanic(n) == [msg |-> ArityMsg, args |-> <<>>]

ValidateArityFirst(ast) ==
  IF Len(ast.data.members) # 2 THEN Some(ArityPanic(Len(ast.data.members)))
  ELSE IF ast.data.kind # "Enum" THEN Some(NotEnumPanic)
  ELSE None

Validate(ast) ==
  IF ast.data.kind # "Enum" THEN Some(NotEnumPanic)
  ELSE IF Len(ast.data.members) # 2 THEN Some(ArityPanic(Len(ast.data.members)))
  ELSE None

\* ------------------------------------------------------ marker extraction
is_ident(attr, name) == attr = name

HasMarker(attrs) == \E i \in DOMAIN attrs : is_ident(attrs[i], INTO_FALSE)

StripAllAttrs(attrs) == <<>>

StripMarker(attrs) == SelectSeq(attrs, LAMBDA a : ~is_ident(a, INTO_FALSE))

RECURSIVE ExtractLast(_, _, _)
ExtractLast(variants, i, found) ==
  IF i > Len(variants) THEN [variants |-> variants, variant_false |-> found]
  ELSE IF HasMarker(variants[i].attrs)
       THEN ExtractLast([variants EXCEPT ![i].attrs = StripMarker(@)], i + 1,
                        Some(variants[i].ident))
       ELSE ExtractLast(variants, i + 1, found)

ExtractNoBreak(variants, i) == ExtractLast(variants, i, None)

RECURSIVE ExtractFrom(_, _)
ExtractFrom(variants, i) ==
  IF i > Len(variants) THEN [variants |-> variants, variant_false |-> None]
  ELSE IF HasMarker(variants[i].attrs)
       THEN [variants |-> [variants EXCEPT ![i].attrs = StripMarker(@)],
             variant_false |-> Some(variants[i].ident)]
       ELSE ExtractFrom(variants, i + 1)

\* ------------------------------------------------------------ generation
NotImplStuck(ident, variant1, variant2) ==
  [ident |-> ident,
   arms |-> <<[pat |-> variant1, res |-> variant2],
              [pat |-> variant2, res |-> variant2]>>]

NotImplIdentity(ident, variant1, variant2) ==
  [ident |-> ident,
   arms |-> <<[pat |-> variant1, res |-> variant1],
              [pat |-> variant2, res |-> variant2]>>]

NotImpl(ident, variant1, variant2) ==
  [ident |-> ident,
   arms |-> <<[pat |-> variant1, res |-> variant2],
              [pat |-> variant2, res |-> variant1]>>]

ConvImpls(ident, variant) ==
  <<[trait |-> "From<enum> for bool", ident |-> ident, variant |-> variant],
    [trait |-> "From<bool> for enum", ident |-> ident, variant |-> variant]>>

IntoBoolImplAlways(ident, variant_false, variant1) ==
  IF variant_false # None THEN ConvImpls(ident, variant_false[1])
  ELSE ConvImpls(ident, variant1)

IntoBoolImpl(ident, variant_false, variant1) ==
  IF variant_false # None THEN ConvImpls(ident, variant_false[1])
  ELSE <<>>

Expand(ast) ==
  LET ex == ExtractFrom(ast.data.members, 1)
      stripped == [ast EXCEPT !.data.members = ex.variants]
      variant1 == ex.variants[1].ident
      variant2 == ex.variants[2].ident
  IN [ast |-> stripped,
      not_impl |-> NotImpl(ast.ident, variant1, variant2),
      into_bool_impl |-> IntoBoolImpl(ast.ident, ex.variant_false, variant1)]

\* -------------------------------------------- the generated code, evaluated
\* match self { E::v1 => E::v2, E::v2 => E::v1 }: the first matching arm
EvalNot(impl, self) ==
  LET hit == {k \in DOMAIN impl.arms : impl.arms[k].pat = self}
      first == CHOOSE k \in hit : \A j \in hit : k <= j
  IN impl.arms[first].res

EvalIntoBoolInverted(impl, other) == IF other = impl.variant THEN TRUE ELSE FALSE

\* if let E::variant = other { false } else { true }
EvalIntoBool(impl, other) == IF other = impl.variant THEN FALSE ELSE TRUE

EvalFromBoolNoNegation(impl, not_impl, other) == impl.variant

\* if other == false { E::variant } else { !E::variant }
EvalFromBool(impl, not_impl, other) ==
  IF other = FALSE THEN impl.variant ELSE EvalNot(not_impl, impl.variant)

\* the values of the emitted enumerated type
Values(tokens) == {tokens.ast.data.members[i].ident : i \in DOMAIN tokens.ast.data.members}

\* ---------------------------------------------------------------- actions
Init ==
  /\ input \in DeriveInputs
  /\ WellFormed(input)
  /\ pc = "input"
  /\ gen = NoTokens
  /\ panicked = None
  /\ calls = <<>>

\* the macro invocation
bool_like ==
  /\ pc = "input"
  /\ LET p == Validate(input)
     IN IF p # None
        THEN /\ pc' = "panicked"
             /\ panicked' = p
             /\ gen' = NoTokens
        ELSE /\ pc' = "expanded"
             /\ panicked' = None
             /\ gen' = Expand(input)
  /\ UNCHANGED <<input, calls>>

\* `!x` in the consuming crate
CallNot ==
  /\ pc = "expanded"
  /\ Len(calls) < MaxCalls
  /\ \E x \in Values(gen) :
       calls' = Append(calls, [op |-> "not", arg |-> x, ret |-> EvalNot(gen.not_impl, x)])
  /\ UNCHANGED <<input, pc, gen, panicked>>

\* `bool::from(x)`; exists only when the conversion impls were emitted
CallIntoBool ==
  /\ pc = "expanded"
  /\ Len(calls) < MaxCalls
  /\ gen.into_bool_impl # <<>>
  /\ \E x \in Values(gen) :
       calls' = Append(calls, [op |-> "into_bool", arg |-> x,
                               ret |-> EvalIntoBool(gen.into_bool_impl[1], x)])
  /\ UNCHANGED <<input, pc, gen, panicked>>

\* `E::from(b)`; exists only when the conversion impls were emitted
CallFromBool ==
  /\ pc = "expanded"
  /\ Len(calls) < MaxCalls
  /\ gen.into_bool_impl # <<>>
  /\ \E b \in BOOLEAN :
       calls' = Append(calls, [op |-> "from_bool", arg |-> b,
                               ret |-> EvalFromBool(gen.into_bool_impl[2], gen.not_impl, b)])
  /\ UNCHANGED <<input, pc, gen, panicked>>

Next == bool_like \/ CallNot \/ CallIntoBool \/ CallFromBool

Spec == Init /\ [][Next]_vars

\* ------------------------------------------------------------- properties
members == input.data.members

Expanded == pc = "expanded"

Panicked == pc = "panicked"

case1 == members[1].ident

case2 == members[2].ident

Other(x) == IF x = case1 THEN case2 ELSE case1

Marked(i) == \E k \in DOMAIN members[i].attrs : members[i].attrs[k] = "into_false"

AnyMarked == \E i \in DOMAIN members : Marked(i)

IsCall(i, op, arg, ret) ==
  /\ calls[i].op = op
  /\ calls[i].arg = arg
  /\ calls[i].ret = ret

Made(op, arg, ret) == \E i \in DOMAIN calls : IsCall(i, op, arg, ret)

\* C1: for every accepted declaration the generated negation is total over
\* the two cases and swaps them: !case1 = case2 and !case2 = case1.
C1_ExhaustiveSwap ==
  Expanded =>
    /\ {gen.not_impl.arms[k].pat : k \in DOMAIN gen.not_impl.arms} = {case1, case2}
    /\ Values(gen) = {case1, case2}
    /\ \A i \in DOMAIN calls :
         calls[i].op = "not" => calls[i].ret = Other(calls[i].arg)

C1_Witness ==
  /\ Expanded
  /\ Marked(2) /\ ~Marked(1)
  /\ Made("not", case1, case2)
  /\ Made("not", case2, case1)

\* C2: the generated negation is involutive: negating the result of a
\* negation gives back the value the first negation was applied to.
C2_Involution ==
  \A i \in DOMAIN calls :
    (/\ i + 1 \in DOMAIN calls
     /\ calls[i].op = "not"
     /\ calls[i + 1].op = "not"
     /\ calls[i + 1].arg = calls[i].ret)
    => calls[i + 1].ret = calls[i].arg

C2_Witness ==
  /\ Expanded
  /\ Len(calls) >= 2
  /\ IsCall(1, "not", case2, case1)
  /\ IsCall(2, "not", case1, case2)

\* C3: with the marker on exactly one case F (first or second) and T the
\* other case: bool::from(F) = false, bool::from(T) = true,
\* E::from(false) = F and E::from(true) = T.
C3_MarkerRoundTrip ==
  (Expanded /\ Marked(1) # Marked(2)) =>
    LET F == IF Marked(1) THEN case1 ELSE case2
        T == Other(F)
    IN /\ gen.into_bool_impl # <<>>
       /\ \A i \in DOMAIN calls :
            /\ calls[i].op = "into_bool" => calls[i].ret = (calls[i].arg = T)
            /\ calls[i].op = "from_bool" =>
                 calls[i].ret = (IF calls[i].arg THEN T ELSE F)

C3_Witness ==
  /\ Expanded
  /\ Marked(2) /\ ~Marked(1)
  /\ Made("into_bool", case2, FALSE)
  /\ Made("into_bool", case1, TRUE)
  /\ Made("from_bool", TRUE, case1)

\* C4: whenever the conversions exist, bool::from(!x) = !bool::from(x) for
\* every value x of the type.
C4_ConversionNegation ==
  \A i \in DOMAIN calls : \A j \in DOMAIN calls : \A k \in DOMAIN calls :
    (/\ calls[i].op = "not"
     /\ calls[j].op = "into_bool"
     /\ calls[k].op = "into_bool"
     /\ calls[j].arg = calls[i].ret
     /\ calls[k].arg = calls[i].arg)
    => calls[j].ret = ~calls[k].ret

C4_Witness ==
  /\ Expanded
  /\ Len(calls) >= 3
  /\ IsCall(1, "not", case2, case1)
  /\ IsCall(2, "into_bool", case1, TRUE)
  /\ IsCall(3, "into_bool", case2, FALSE)

\* C5: the two conversion impls are emitted together exactly when some case
\* carries the marker; with no marker the output is the declaration as given
\* and the negation impl only.
C5_ConversionsIffMarker ==
  Expanded =>
    /\ (gen.into_bool_impl # <<>>) <=> AnyMarked
    /\ gen.into_bool_impl # <<>> =>
         /\ Len(gen.into_bool_impl) = 2
         /\ gen.into_bool_impl[1].trait = "From<enum> for bool"
         /\ gen.into_bool_impl[2].trait = "From<bool> for enum"
    /\ ~AnyMarked =>
         /\ gen.ast = input
         /\ DOMAIN gen = {"ast", "not_impl", "into_bool_impl"}
         /\ \A i \in DOMAIN calls : calls[i].op = "not"

C5_Witness ==
  /\ Expanded
  /\ ~AnyMarked
  /\ gen.into_bool_impl = <<>>
  /\ Made("not", case1, case2)

\* C6: the macro fails, emitting nothing, exactly when the item is not an
\* enum or its variant count is not two; a non-enum is always reported with
\* the not-an-enum message and the arity message only for enums.
C6_Rejection ==
  pc # "input" =>
    /\ Panicked <=> (input.data.kind # "Enum" \/ Len(members) # 2)
    /\ Panicked => /\ gen = NoTokens
                   /\ calls = <<>>
                   /\ panicked # None
    /\ (Panicked /\ input.data.kind # "Enum") => panicked[1].msg = NotEnumMsg
    /\ (Panicked /\ panicked[1].msg = ArityMsg) => input.data.kind = "Enum"

C6_Witness ==
  /\ Panicked
  /\ input.data.kind = "Struct"
  /\ Len(members) = 3
  /\ panicked[1].msg = NotEnumMsg

\* C7 (as stated): the wrong-arity error carries the actual variant count n.
C7_ArityCarriesCount ==
  (Panicked /\ input.data.kind = "Enum") =>
    \E k \in DOMAIN panicked[1].args : panicked[1].args[k] = Len(members)

\* C7 (amended): the wrong-arity error is one fixed message for every n; it
\* says that exactly two variants are required and carries no count.
C7_ArityFixedMessage ==
  (Panicked /\ input.data.kind = "Enum") =>
    /\ Len(members) # 2
    /\ panicked[1].msg = ArityMsg
    /\ panicked[1].args = <<>>

C7_Witness ==
  /\ Panicked
  /\ input.data.kind = "Enum"
  /\ Len(members) = 3
  /\ panicked[1].msg = ArityMsg

\* C8: whatever the number and placement of markers on the two cases, no
\* case of the re-emitted declaration carries the marker.
C8_NoMarkerLeak ==
  Expanded =>
    \A i \in DOMAIN gen.ast.data.members :
      \A k \in DOMAIN gen.ast.data.members[i].attrs :
        gen.ast.data.members[i].attrs[k] # "into_false"

\* C9: when both cases carry the marker the macro does not fail and honors
\* the first: bool::from(case1) = false, bool::from(case2) = true,
\* E::from(false) = case1 and E::from(true) = case2.
C9_FirstMarkerHonored ==
  (pc # "input" /\ input.data.kind = "Enum" /\ Len(members) = 2
     /\ Marked(1) /\ Marked(2)) =>
    /\ Expanded
    /\ gen.into_bool_impl # <<>>
    /\ \A n \in DOMAIN gen.into_bool_impl : gen.into_bool_impl[n].variant = case1
    /\ \A i \in DOMAIN calls :
         /\ calls[i].op = "into_bool" => calls[i].ret = (calls[i].arg = case2)
         /\ calls[i].op = "from_bool" =>
              calls[i].ret = (IF calls[i].arg THEN case2 ELSE case1)

C9_Witness ==
  /\ Expanded
  /\ Marked(1) /\ Marked(2)
  /\ Made("into_bool", case1, FALSE)
  /\ Made("into_bool", case2, TRUE)
  /\ Made("from_bool", TRUE, case2)

\* C10: the re-emitted declaration differs from the input only in that the
\* honored case has lost its markers: name, case names and order,
\* declaration attributes and every other case attribute (in order) are kept;
\* with no marker it equals the input.
Honored == IF Marked(1) THEN 1 ELSE IF Marked(2) THEN 2 ELSE 0

NonMarkers(attrs) == SelectSeq(attrs, LAMBDA a : a # "into_false")

C10_Frame ==
  Expanded =>
    /\ gen.ast.ident = input.ident
    /\ gen.ast.attrs = input.attrs
    /\ gen.ast.data.kind = input.data.kind
    /\ DOMAIN gen.ast.data.members = DOMAIN members
    /\ \A i \in DOMAIN members :
         /\ gen.ast.data.members[i].ident = members[i].ident
         /\ gen.ast.data.members[i].attrs =
              (IF i = Honored THEN NonMarkers(members[i].attrs)
                              ELSE members[i].attrs)
    /\ Honored = 0 => gen.ast = input

C10_Witness ==
  /\ Expanded
  /\ input.attrs # <<>>
  /\ members[1].attrs = <<"doc", "into_false">>
  /\ members[2].attrs = <<"into_false", "cfg">>
  /\ gen.ast.data.members[1].attrs = <<"doc">>
  /\ gen.ast.data.members[2].attrs = <<"into_false", "cfg">>

====
